---- MODULE Spec2Model ----
(***************************************************************************)
(* Model of the python-smpp USSD gateway: SmppClient (connection           *)
(* controller), MtnUssd.run (reconnect supervisor), SendSubmitSm /         *)
(* Response (session correlation, backend bridge, outbound framing).       *)
(*                                                                         *)
(* Text is a sequence of Unicode code points, bytes a sequence of 0..255.  *)
(* The smpplib library is external: its tag constants are named by their   *)
(* symbols and its client state by the names the source compares against.  *)
(***************************************************************************)
EXTENDS Integers, Sequences, FiniteSets, TLC

\* ------------------------------------------------------------------ bounds
MaxMsgLen == 4
MaxSidLen == 2
MaxTokenLen == 2
MaxBodyLen == 3
MaxPayloadLen == 1
NumWorkers == 1
MaxConn == 6
MaxEvents == 2
MaxLinkFlips == 1
MaxSessions == 2
MaxDataLen == 12

\* ------------------------------------------------------- text primitives
SeqsUpTo(S, n) == UNION {[1..k -> S] : k \in 0..n}

Min(a, b) == IF a < b THEN a ELSE b

\* str.isspace() on the code points below U+0100
IsSpace(c) == c \in {9, 10, 11, 12, 13, 28, 29, 30, 31, 32, 133, 160}

\* str.upper() on one code point (a-z and the Latin-1 lower case letters)
UpperChar(c) ==
    IF c \in 97..122 THEN c - 32
    ELSE IF c \in (224..254) \ {247} THEN c - 32
    ELSE c

Upper(s) == [i \in 1..Len(s) |-> UpperChar(s[i])]

RECURSIVE LStrip(_)
LStrip(s) == IF s # <<>> /\ IsSpace(Head(s)) THEN LStrip(Tail(s)) ELSE s

RECURSIVE RStrip(_)
RStrip(s) ==
    IF s # <<>> /\ IsSpace(s[Len(s)]) THEN RStrip(SubSeq(s, 1, Len(s) - 1)) ELSE s

\* str.strip(): white space removed at both ends
Strip(s) == RStrip(LStrip(s))

\* s[:n] and s[n:]
Prefix(s, n) == SubSeq(s, 1, Min(n, Len(s)))
Suffix(s, n) == SubSeq(s, Min(n, Len(s)) + 1, Len(s))

IsAscii(c) == c < 128

\* str.encode('ascii', errors='ignore'): code points above 127 are dropped
EncodeAscii(s) == SelectSeq(s, IsAscii)

\* str.encode(): UTF-8, for code points below U+0800
RECURSIVE Utf8Encode(_)
Utf8Encode(s) ==
    IF s = <<>> THEN <<>>
    ELSE (IF Head(s) < 128 THEN <<Head(s)>>
          ELSE <<192 + (Head(s) \div 64), 128 + (Head(s) % 64)>>)
         \o Utf8Encode(Tail(s))

\* bytes.decode(): UTF-8 of one- and two-byte sequences; -1 marks the place
\* where the decoder raises UnicodeDecodeError
RECURSIVE Utf8Decode(_)
Utf8Decode(b) ==
    IF b = <<>> THEN <<>>
    ELSE IF b[1] < 128 THEN <<b[1]>> \o Utf8Decode(Tail(b))
    ELSE IF /\ b[1] \in 194..223
            /\ Len(b) >= 2
            /\ b[2] \in 128..191
         THEN <<(b[1] - 192) * 64 + (b[2] - 128)>> \o Utf8Decode(Tail(Tail(b)))
    ELSE <<-1>>

DecodeOk(b) == \A i \in 1..Len(Utf8Decode(b)) : Utf8Decode(b)[i] # -1

\* str(n) of a non-negative int
RECURSIVE IntToStr(_)
IntToStr(n) ==
    IF n < 10 THEN <<48 + n>> ELSE IntToStr(n \div 10) \o <<48 + (n % 10)>>

IsDigit(c) == c \in 48..57

RECURSIVE DigitsValue(_)
DigitsValue(s) ==
    IF s = <<>> THEN 0 ELSE DigitsValue(SubSeq(s, 1, Len(s) - 1)) * 10 + (s[Len(s)] - 48)

\* int(s): white space stripped, an optional sign, then decimal digits;
\* anything else raises ValueError
ParseInt(s) ==
    LET t == Strip(s)
        signed == t # <<>> /\ Head(t) \in {43, 45}
        digits == IF signed THEN Tail(t) ELSE t
        ok == digits # <<>> /\ \A i \in 1..Len(digits) : IsDigit(digits[i])
    IN  [ok |-> ok,
         value |-> IF ~ok THEN 0
                   ELSE IF signed /\ Head(t) = 45 THEN 0 - DigitsValue(digits)
                   ELSE DigitsValue(digits)]

\* int.to_bytes(4, 'big'): OverflowError for a negative value and for one of
\* 2^32 or more (the high half is that of a 16-bit number)
ToBytes4Ok(n) == n >= 0 /\ (n \div 65536) < 65536

ToBytes4(n) ==
    <<(n \div 16777216) % 256, (n \div 65536) % 256, (n \div 256) % 256, n % 256>>


\* ------------------------------------------------- variants of the worker
\* SendSubmitSm is the task SmppClient.handle_message schedules; Response is
\* the second implementation of the same pipeline kept in the repository.
Variants == {"SendSubmitSm", "Response"}

\* the other policy: an id made up for the event instead of the sentinel
GeneratedSessionId == <<52, 97>>

\* ------------------------------------------------------ SessionCorrelator
\* "0": the "no session" sentinel
DefaultSessionId == <<48>>

\* the optional-parameter keys the extraction loop recognizes
SessionTags == {"its_session_info", "TAG_ITS_SESSION_INFO"}

IsSessionTag(tag) == tag \in SessionTags

\* str(value) without the decode: the repr of the bytes, b'42'
TokenTextRepr(value) ==
    IF value.type = "bytes" THEN <<98, 39>> \o Utf8Decode(value.v) \o <<39>>
    ELSE IntToStr(value.v)

\* str(value.decode()) for bytes, str(value) for anything else
TokenText(value) ==
    IF value.type = "bytes" THEN Utf8Decode(value.v) ELSE IntToStr(value.v)

TokenOk(value) == value.type = "bytes" => DecodeOk(value.v)

\* the places of the recognized entries of optional_parameters, in dict order
SessionEntries(params) == {i \in 1..Len(params) : IsSessionTag(params[i][1])}

SetMin(S) == CHOOSE x \in S : \A y \in S : x <= y
SetMax(S) == CHOOSE x \in S : \A y \in S : x >= y

\* SendSubmitSm._extract_session_id returns at the first recognized entry;
\* Response.process_deliver_sm_request keeps looping, so every recognized
\* entry is decoded and the last one wins.
ExtractSessionId(variant, params) ==
    LET rec == SessionEntries(params) IN
    IF rec = {} THEN [raised |-> FALSE, found |-> FALSE, session_id |-> <<>>]
    ELSE IF variant = "SendSubmitSm"
         THEN LET v == params[SetMin(rec)][2] IN
              IF TokenOk(v)
              THEN [raised |-> FALSE, found |-> TRUE, session_id |-> TokenText(v)]
              ELSE [raised |-> TRUE, found |-> FALSE, session_id |-> <<>>]
    ELSE LET v == params[SetMax(rec)][2] IN
         IF \A i \in rec : TokenOk(params[i][2])
         THEN [raised |-> FALSE, found |-> TRUE, session_id |-> TokenText(v)]
         ELSE [raised |-> TRUE, found |-> FALSE, session_id |-> <<>>]

\* run(), up to the session id: a blank payload is not processed at all; an
\* exception of the extraction is caught at the end of run()
RunSessionId(variant, p) ==
    LET x == ExtractSessionId(variant, p.optional_parameters) IN
    IF Strip(p.payload) = <<>>
    THEN [processed |-> FALSE, raised |-> FALSE, session_id |-> <<>>]
    ELSE IF x.raised
    THEN [processed |-> FALSE, raised |-> TRUE, session_id |-> <<>>]
    ELSE [processed |-> TRUE, raised |-> FALSE,
          session_id |-> IF x.found THEN x.session_id ELSE DefaultSessionId]

\* --------------------------------------------------------- ResponseBridge
\* "System Error. Please try again later. Thanks"
default_response ==
    <<83, 121, 115, 116, 101, 109, 32, 69, 114, 114, 111, 114, 46, 32, 80, 108,
      101, 97, 115, 101, 32, 116, 114, 121, 32, 97, 103, 97, 105, 110, 32, 108,
      97, 116, 101, 114, 46, 32, 84, 104, 97, 110, 107, 115>>

\* what urlopen/read/decode does: "ok" with the body's bytes, "URLError"
\* (connection refused, connect timeout), "timeout" (socket.timeout while
\* reading), "HTTPException" (a broken status line)
BackendKinds == {"ok", "URLError", "timeout", "HTTPException"}

\* the exception, if any, that leaves the with-block
BackendError(o) ==
    IF o.kind # "ok" THEN o.kind
    ELSE IF ~DecodeOk(o.body) THEN "UnicodeDecodeError"
    ELSE "none"

\* except urllib.error.URLError
CaughtAsURLError(err) == err = "URLError"

\* no catch-all clause after except URLError
CaughtAsNothing(err) == FALSE

\* except Exception: every other exception named above derives from it
CaughtAsException(err) ==
    err \in {"URLError", "timeout", "HTTPException", "UnicodeDecodeError"}

\* return response_data.strip() if response_data else default_response
ResponseText(response_data) ==
    IF response_data # <<>> THEN Strip(response_data) ELSE default_response

http_request(o) ==
    LET err == BackendError(o) IN
    IF err = "none"
    THEN [raised |-> FALSE, text |-> ResponseText(Utf8Decode(o.body))]
    ELSE IF CaughtAsURLError(err) THEN [raised |-> FALSE, text |-> default_response]
    ELSE IF CaughtAsException(err) THEN [raised |-> FALSE, text |-> default_response]
    ELSE [raised |-> TRUE, text |-> <<>>]

\* --------------------------------------------------------- OutboundEncoder
\* "END"
END == <<69, 78, 68>>

\* ussd_service_op values: b'\x11' ends the session, b'\x02' continues it
UssdOpEnd == <<17>>
UssdOpContinue == <<2>>

\* the comparison without .upper(): "end" would no longer end the session
EndSessionCaseSensitive(message) ==
    IF Len(message) >= 3 THEN Prefix(message, 3) ELSE <<>>

\* end_session = message[:3].upper() if len(message) >= 3 else ""
EndSession(message) ==
    IF Len(message) >= 3 THEN Upper(Prefix(message, 3)) ELSE <<>>

\* message = message[3:].strip()
RemoveEndPrefix(message) == Strip(Suffix(message, 3))

\* if session_id and session_id != "0"
HasSession(session_id) == session_id # <<>> /\ session_id # DefaultSessionId

\* The bytes of the session tag. SendSubmitSm: int(session_id).to_bytes(4,
\* 'big'), where int() raises ValueError and to_bytes OverflowError.
\* Response catches the ValueError and sends session_id.encode() instead.
SessionTagValue(variant, session_id) ==
    LET p == ParseInt(session_id) IN
    IF p.ok
    THEN IF ToBytes4Ok(p.value)
         THEN [raised |-> FALSE, value |-> ToBytes4(p.value)]
         ELSE [raised |-> TRUE, value |-> <<>>]
    ELSE IF variant = "Response"
         THEN [raised |-> FALSE, value |-> Utf8Encode(session_id)]
         ELSE [raised |-> TRUE, value |-> <<>>]

\* what conn.send_message does: the message is accepted, or an error whose
\* text has "Connection reset" or "not connected" ("reset"), or an error
\* with another text, a timeout or a broken pipe ("other")
SendResults == {"sent", "reset", "other"}

\* submit_short_message, the try block around conn.send_message: every
\* error is logged and raised again, and _connected is cleared when the text
\* of the error names a reset or a session that is not connected
SendMessageResult(send, flag) ==
    [raised |-> send # "sent",
     connected |-> IF send = "reset" THEN FALSE ELSE flag]

NoFrame == [submitted |-> FALSE, short_message |-> <<>>, optional_parameters |-> <<>>]

\* send_submit_sm up to the call of smpp_client.submit_short_message: the
\* keyword arguments it hands over, or nothing when an exception was caught
\* by its own except clause before the call.
send_submit_sm(variant, message, session_id) ==
    LET tag == SessionTagValue(variant, session_id)
        isEnd == EndSession(message) = END
        ussd_op_value == IF isEnd THEN UssdOpEnd ELSE UssdOpContinue
        text == IF isEnd THEN RemoveEndPrefix(message) ELSE message
        session_params ==
            IF HasSession(session_id)
            THEN << <<"TAG_ITS_SESSION_INFO", tag.value>> >>
            ELSE << >>
    IN  IF HasSession(session_id) /\ tag.raised THEN NoFrame
        ELSE [submitted |-> TRUE,
              short_message |-> EncodeAscii(text),
              optional_parameters |->
                  session_params \o << <<"TAG_USSD_SERVICE_OP", ussd_op_value>> >>]


\* ------------------------------------------- the optional-parameter decoder
\* patched_parse_optional_params(self, data): data is the tail of a pdu, a
\* run of records of a 2-byte tag, a 2-byte length and the value.

\* self.params as the method reads it: a mapping from tag to the name, the
\* type and the multi flag of the parameter. Tag 0 is in neither table; in
\* the second table the parameter of tag 257 has no name.
ParamNames == {"a", "b", "c"}

ParamTables ==
    {[t \in {1, 256, 257} |->
        IF t = 1 THEN [name |-> "a", type |-> "ostr", multi |-> FALSE]
        ELSE IF t = 256 THEN [name |-> "b", type |-> "int", multi |-> FALSE]
        ELSE [name |-> "c", type |-> "ostr", multi |-> TRUE]],
     [t \in {1, 256, 257} |->
        IF t = 1 THEN [name |-> "a", type |-> "ostr", multi |-> FALSE]
        ELSE IF t = 256 THEN [name |-> "b", type |-> "int", multi |-> FALSE]
        ELSE [name |-> "", type |-> "ostr", multi |-> FALSE]]}

\* struct.unpack('!HH', data[pos:pos+4]): two big-endian 16-bit numbers
UnpackHH(d, p) ==
    [field |-> d[p + 1] * 256 + d[p + 2], length |-> d[p + 3] * 256 + d[p + 4]]

\* param_type(value): ostr keeps the bytes, int(value) reads decimal digits
\* and raises ValueError on anything else
ParamTypeOk(type, value) == type = "int" => ParseInt(value).ok

ParamTypeValue(type, value) ==
    IF type = "int" THEN ParseInt(value).value ELSE value

\* only struct.error is caught inside the loop
CaughtByDecoderStructOnly(err) == err = "struct.error"

\* except struct.error and except Exception, both inside the loop
CaughtByDecoder(err) == err \in {"struct.error", "ValueError", "AttributeError"}

\* the loop stops at a tag it does not know
UnknownTagBreaks == "unknown"

\* a tag that is not in self.params is logged at debug level and the loop
\* goes on
UnknownTagSkipped == "none"

\* the read position stays where it is
PosKept(p, value_end) == p

\* pos = value_end at the end of the iteration
PosAfterRecord(p, value_end) == value_end

\* one attribute of the pdu object: the values set, the last one for a plain
\* parameter, all of them in order for a multi parameter
NoAttr == <<>>

\* one turn of the while loop at position p with the attributes set so far:
\* the position, the attributes and why the loop stopped ("none": it goes
\* round again)
DecodeIteration(d, table, p, attrs) ==
    IF Len(d) - p < 4
    THEN [pos |-> p, decoded |-> attrs, stop |-> "short"]
    ELSE LET h == UnpackHH(d, p)
             value_start == p + 4
             value_end == value_start + h.length
         IN  IF value_end > Len(d)
             THEN [pos |-> p, decoded |-> attrs, stop |-> "overrun"]
             ELSE IF h.field \notin DOMAIN table
             THEN [pos |-> IF UnknownTagSkipped = "none"
                           THEN PosAfterRecord(p, value_end) ELSE p,
                   decoded |-> attrs, stop |-> UnknownTagSkipped]
             ELSE LET param == table[h.field]
                      value == SubSeq(d, value_start + 1, value_end)
                  IN  IF param.name = ""
                      THEN [pos |-> PosAfterRecord(p, value_end),
                            decoded |-> attrs, stop |-> "none"]
                      ELSE IF ~ParamTypeOk(param.type, value)
                      THEN [pos |-> p, decoded |-> attrs,
                            stop |-> IF CaughtByDecoder("ValueError")
                                     THEN "error" ELSE "raised"]
                      ELSE [pos |-> PosAfterRecord(p, value_end),
                            decoded |->
                                [attrs EXCEPT ![param.name] =
                                    IF param.multi
                                    THEN Append(@, ParamTypeValue(param.type, value))
                                    ELSE <<ParamTypeValue(param.type, value)>>],
                            stop |-> "none"]

\* ------------------------------------------------------------------ state
VARIABLES
    \* one call of a worker function and what it returned
    fn, variant, message, session_id, pdu, backend, returned,
    frame, run_session, menu_response, send_outcome, send_result,
    \* one call of patched_parse_optional_params
    data, param_table, pos, decoded, stop, iterations,
    \* SmppClient
    lock, conn, connState, sock, connected, should_run, executor_shutdown,
    nconn, lpc, lconn, lev, queue, delivered, sendCalls,
    \* the workers of executor_service
    wev, runs, requests,
    \* a thread that calls the operations of the client itself
    cpc, cres,
    \* MtnUssd.run
    mainPc, retry, connection_attempts, backoff_time, connect_result, exit_status,
    \* the network path to the SMSC
    linkUp, linkFlips

decoderVars == <<data, param_table, pos, decoded, stop, iterations>>

funcVars == <<fn, variant, message, session_id, pdu, backend, returned,
              frame, run_session, menu_response, send_outcome, send_result,
              decoderVars>>

clientVars == <<lock, conn, connState, sock, connected, should_run,
                executor_shutdown, nconn, lpc, lconn, lev, queue, delivered,
                sendCalls>>

workerVars == <<wev, runs, requests>>

callerVars == <<cpc, cres>>

mainVars == <<mainPc, retry, connection_attempts, backoff_time, connect_result,
              exit_status>>

envVars == <<linkUp, linkFlips>>

concVars == <<clientVars, workerVars, callerVars, mainVars, envVars>>

vars == <<funcVars, concVars>>

\* ------------------------------------------- inputs of the worker functions
\* reply texts: E e N D, blank, and e-acute (not ASCII)
MsgChars == {69, 101, 78, 68, 32, 233}
Messages == SeqsUpTo(MsgChars, MaxMsgLen)

\* session ids: 0 4 a -
SidChars == {48, 52, 97, 45}
SessionIds == SeqsUpTo(SidChars, MaxSidLen)

\* token bytes: "4", "2", and 0xFF, which is no UTF-8
TokenBytes == {52, 50, 255}
TokenValues ==
    {[type |-> "bytes", v |-> b] : b \in SeqsUpTo(TokenBytes, MaxTokenLen)}
    \cup {[type |-> "int", v |-> 42]}

\* an optional parameter that is no session token
OtherParam == <<"TAG_USSD_SERVICE_OP", [type |-> "bytes", v |-> <<1>>]>>

ParamEntries == (SessionTags \X TokenValues) \cup {OtherParam}

\* pdu.optional_parameters: a dict, so no key twice
OptionalParameters ==
    {<<>>} \cup {<<e>> : e \in ParamEntries}
    \cup {<<e, f>> : <<e, f>> \in {x \in ParamEntries \X ParamEntries : x[1][1] # x[2][1]}}

\* payloads: blank and "1"
PayloadChars == {32, 49}
Pdus == [payload : SeqsUpTo(PayloadChars, MaxPayloadLen),
         optional_parameters : OptionalParameters]

\* response bodies: blank, "B", and 0xFF
BodyBytes == {32, 66, 255}
BackendOutcomes ==
    {[kind |-> "ok", body |-> b] : b \in SeqsUpTo(BodyBytes, MaxBodyLen)}
    \cup {[kind |-> k, body |-> <<>>] : k \in BackendKinds \ {"ok"}}

NoPdu == [payload |-> <<>>, optional_parameters |-> <<>>]
NoOutcome == [kind |-> "ok", body |-> <<>>]
NoSession == [processed |-> FALSE, raised |-> FALSE, session_id |-> <<>>]
NoReply == [raised |-> FALSE, text |-> <<>>]
NoSend == [raised |-> FALSE, connected |-> TRUE]

\* the bytes after the mandatory fields of a pdu: 0x00 and 0x01
DataBytes == {0, 1}
DataStrings == SeqsUpTo(DataBytes, MaxDataLen)
NoTable == [t \in {} |-> [name |-> "", type |-> "ostr", multi |-> FALSE]]
NoAttrs == [n \in ParamNames |-> NoAttr]

FuncInit ==
    /\ fn = "idle"
    /\ variant = "SendSubmitSm"
    /\ message = <<>>
    /\ session_id = <<>>
    /\ pdu = NoPdu
    /\ backend = NoOutcome
    /\ returned = FALSE
    /\ frame = NoFrame
    /\ run_session = NoSession
    /\ menu_response = NoReply
    /\ send_outcome = "sent"
    /\ send_result = NoSend
    /\ data = <<>>
    /\ param_table = NoTable
    /\ pos = 0
    /\ decoded = NoAttrs
    /\ stop = "none"
    /\ iterations = 0

CanCall == fn = "idle"

\* a caller hands a reply text and a session id to send_submit_sm
CallSendSubmitSm ==
    /\ CanCall
    /\ \E v \in Variants, m \in Messages, s \in SessionIds :
        /\ fn' = "send_submit_sm"
        /\ variant' = v
        /\ message' = m
        /\ session_id' = s
    /\ pdu' = NoPdu
    /\ backend' = NoOutcome
    /\ returned' = FALSE
    /\ frame' = NoFrame
    /\ run_session' = NoSession
    /\ menu_response' = NoReply
    /\ send_outcome' = "sent"
    /\ send_result' = NoSend
    /\ UNCHANGED decoderVars
    /\ UNCHANGED concVars

ReturnSendSubmitSm ==
    /\ fn = "send_submit_sm"
    /\ ~returned
    /\ frame' = send_submit_sm(variant, message, session_id)
    /\ returned' = TRUE
    /\ UNCHANGED <<fn, variant, message, session_id, pdu, backend, run_session,
                   menu_response, send_outcome, send_result>>
    /\ UNCHANGED decoderVars
    /\ UNCHANGED concVars

\* a deliver_sm pdu reaches run() / process_deliver_sm_request()
CallRun ==
    /\ CanCall
    /\ \E v \in Variants, p \in Pdus :
        /\ fn' = "run"
        /\ variant' = v
        /\ pdu' = p
    /\ message' = <<>>
    /\ session_id' = <<>>
    /\ backend' = NoOutcome
    /\ returned' = FALSE
    /\ frame' = NoFrame
    /\ run_session' = NoSession
    /\ menu_response' = NoReply
    /\ send_outcome' = "sent"
    /\ send_result' = NoSend
    /\ UNCHANGED decoderVars
    /\ UNCHANGED concVars

ReturnRun ==
    /\ fn = "run"
    /\ ~returned
    /\ run_session' = RunSessionId(variant, pdu)
    /\ returned' = TRUE
    /\ UNCHANGED <<fn, variant, message, session_id, pdu, backend, frame,
                   menu_response, send_outcome, send_result>>
    /\ UNCHANGED decoderVars
    /\ UNCHANGED concVars

\* the backend answers, or fails, a call of http_request
CallHttpRequest ==
    /\ CanCall
    /\ \E v \in Variants, o \in BackendOutcomes :
        /\ fn' = "http_request"
        /\ variant' = v
        /\ backend' = o
    /\ message' = <<>>
    /\ session_id' = <<>>
    /\ pdu' = NoPdu
    /\ returned' = FALSE
    /\ frame' = NoFrame
    /\ run_session' = NoSession
    /\ menu_response' = NoReply
    /\ send_outcome' = "sent"
    /\ send_result' = NoSend
    /\ UNCHANGED decoderVars
    /\ UNCHANGED concVars

ReturnHttpRequest ==
    /\ fn = "http_request"
    /\ ~returned
    /\ menu_response' = http_request(backend)
    /\ returned' = TRUE
    /\ UNCHANGED <<fn, variant, message, session_id, pdu, backend, frame,
                   run_session, send_outcome, send_result>>
    /\ UNCHANGED decoderVars
    /\ UNCHANGED concVars

\* conn.send_message is called in the try block of submit_short_message,
\* the session bound, and accepts the message or raises
CallSendMessage ==
    /\ CanCall
    /\ \E o \in SendResults :
        /\ fn' = "send_message"
        /\ send_outcome' = o
    /\ variant' = "SendSubmitSm"
    /\ message' = <<>>
    /\ session_id' = <<>>
    /\ pdu' = NoPdu
    /\ backend' = NoOutcome
    /\ returned' = FALSE
    /\ frame' = NoFrame
    /\ run_session' = NoSession
    /\ menu_response' = NoReply
    /\ send_result' = NoSend
    /\ UNCHANGED decoderVars
    /\ UNCHANGED concVars

ReturnSendMessage ==
    /\ fn = "send_message"
    /\ ~returned
    /\ send_result' = SendMessageResult(send_outcome, TRUE)
    /\ returned' = TRUE
    /\ UNCHANGED <<fn, variant, message, session_id, pdu, backend, frame,
                   run_session, menu_response, send_outcome>>
    /\ UNCHANGED decoderVars
    /\ UNCHANGED concVars

\* a pdu with optional parameters is parsed: the patched method is called
\* with the bytes that follow the mandatory fields
CallParseOptionalParams ==
    /\ CanCall
    /\ \E d \in DataStrings, t \in ParamTables :
        /\ fn' = "parse_optional_params"
        /\ data' = d
        /\ param_table' = t
    /\ pos' = 0
    /\ decoded' = NoAttrs
    /\ stop' = "none"
    /\ iterations' = 0
    /\ returned' = FALSE
    /\ UNCHANGED <<variant, message, session_id, pdu, backend, frame, run_session,
                   menu_response, send_outcome, send_result>>
    /\ UNCHANGED concVars

\* while pos < len(data): one turn of the loop
ParseOptionalParamsStep ==
    /\ fn = "parse_optional_params"
    /\ ~returned
    /\ stop = "none"
    /\ pos < Len(data)
    /\ LET r == DecodeIteration(data, param_table, pos, decoded) IN
        /\ pos' = r.pos
        /\ decoded' = r.decoded
        /\ stop' = r.stop
    /\ iterations' = iterations + 1
    /\ UNCHANGED <<fn, variant, message, session_id, pdu, backend, returned,
                   frame, run_session, menu_response, send_outcome, send_result,
                   data, param_table>>
    /\ UNCHANGED concVars

\* the loop has ended, by its condition or by a break, or an exception has
\* left the method
ReturnParseOptionalParams ==
    /\ fn = "parse_optional_params"
    /\ ~returned
    /\ stop # "none" \/ pos >= Len(data)
    /\ stop' = IF stop = "none" THEN "end" ELSE stop
    /\ returned' = TRUE
    /\ UNCHANGED <<fn, variant, message, session_id, pdu, backend, frame,
                   run_session, menu_response, send_outcome, send_result,
                   data, param_table, pos, decoded, iterations>>
    /\ UNCHANGED concVars

FuncNext ==
    \/ CallParseOptionalParams
    \/ ParseOptionalParamsStep
    \/ ReturnParseOptionalParams
    \/ CallSendMessage
    \/ ReturnSendMessage
    \/ CallSendSubmitSm
    \/ ReturnSendSubmitSm
    \/ CallRun
    \/ ReturnRun
    \/ CallHttpRequest
    \/ ReturnHttpRequest


\* ------------------------------------------------ the connection controller
Handles == 1..MaxConn

\* the read-loop threads, one started by every bind that succeeds
Threads == 1..MaxSessions
Workers == 1..NumWorkers

\* the owners of self._lock
Free == [kind |-> "none", id |-> 0]
MainThread == [kind |-> "main", id |-> 0]
CallerThread == [kind |-> "caller", id |-> 0]

\* threading.Lock(): whoever holds it, the owner included, a further acquire
\* blocks until it is released
CanAcquire(l, t) == l = Free

\* The deliver_sm events by what run() makes of them: a payload that is
\* blank once stripped, a payload with text, and a payload with text whose
\* session token is not UTF-8.
EventKinds == {"blank", "text", "undecodable"}

max_connection_attempts == 5

\* max where min is meant: every delay is the cap
BackoffTimeMax(attempts) == IF 2 ^ attempts > 60 THEN 2 ^ attempts ELSE 60

\* backoff_time = min(2 ** connection_attempts, 60)
BackoffTime(attempts) == Min(2 ^ attempts, 60)

\* _connected, a handle, and the library state the source compares against
Bound == connected /\ conn # 0 /\ connState[conn] = "BOUND_TRX"

\* send_pdu(EnquireLink()) and send_message() on a path that is down may
\* still be accepted by the local socket, or raise
ProbeOutcomes == IF linkUp THEN {"sent"} ELSE {"sent", "raised"}

\* "reset": an error whose text has "Connection reset" or "not connected"
SendOutcomes == IF linkUp THEN {"sent"} ELSE SendResults

\* a probe that raises leaves _connected as it was
IsConnectedResultFlagKept(probe) ==
    IF ~connected \/ conn = 0 THEN [ret |-> FALSE, connected |-> connected]
    ELSE IF connState[conn] # "BOUND_TRX" THEN [ret |-> FALSE, connected |-> connected]
    ELSE IF ~sock[conn] THEN [ret |-> FALSE, connected |-> connected]
    ELSE IF probe = "sent" THEN [ret |-> TRUE, connected |-> connected]
    ELSE [ret |-> FALSE, connected |-> connected]

\* the body of is_connected(), the lock held: the value returned and
\* _connected afterwards
IsConnectedResult(probe) ==
    IF ~connected \/ conn = 0 THEN [ret |-> FALSE, connected |-> connected]
    ELSE IF connState[conn] # "BOUND_TRX" THEN [ret |-> FALSE, connected |-> connected]
    ELSE IF ~sock[conn] THEN [ret |-> FALSE, connected |-> connected]
    ELSE IF probe = "sent" THEN [ret |-> TRUE, connected |-> connected]
    ELSE [ret |-> FALSE, connected |-> FALSE]

\* the teardown leaves the socket of the handle as it is
LeakedSockets(h) == sock

\* conn.disconnect(): the socket of the handle is closed
ClosedSockets(h) == [sock EXCEPT ![h] = FALSE]

\* bind_transceiver leaves the handle bound as a transmitter
BindTransmitterState == "BOUND_TX"

\* the state of a handle after bind_transceiver
BindTransceiverState == "BOUND_TRX"

\* disconnect(): unbind() raises on a handle that is bound when the path is
\* down, and conn.disconnect() in the same try block is skipped
UnbindRaises == conn # 0 /\ connState[conn] = "BOUND_TRX" /\ ~linkUp

\* the handle stays in self.conn when the teardown raised
ConnKeptWhenRaised(raised) == IF raised THEN conn ELSE 0

\* disconnect(): finally: self.conn = None
ConnAfterDisconnect(raised) == 0

\* the sessions bound so far: each one started a read-loop thread
Sessions == Cardinality({k \in Threads : lpc[k] # "none"})

ConcInit ==
    /\ lock = Free
    /\ conn = 0
    /\ connState = [h \in Handles |-> "NONE"]
    /\ sock = [h \in Handles |-> FALSE]
    /\ connected = FALSE
    /\ should_run = TRUE
    /\ executor_shutdown = FALSE
    /\ nconn = 0
    /\ lpc = [k \in Threads |-> "none"]
    /\ lconn = [k \in Threads |-> 0]
    /\ lev = [k \in Threads |-> 0]
    /\ queue = <<>>
    /\ delivered = 0
    /\ sendCalls = 0
    /\ wev = [w \in Workers |-> "none"]
    /\ runs = 0
    /\ requests = 0
    /\ cpc = "idle"
    /\ cres = "none"
    /\ mainPc = "start"
    /\ retry = TRUE
    /\ connection_attempts = 0
    /\ backoff_time = 0
    /\ connect_result = "none"
    /\ exit_status = "running"
    /\ linkUp = TRUE
    /\ linkFlips = 0

\* connect_gateway, first half: take the lock, unbind and disconnect the
\* handle there is (errors swallowed), self.conn = None
ConnectGatewayBegin ==
    /\ mainPc \in {"start", "backoff"}
    /\ nconn < MaxConn
    /\ CanAcquire(lock, MainThread)
    /\ lock' = MainThread
    /\ IF conn # 0
       THEN /\ connState' = [connState EXCEPT ![conn] = "CLOSED"]
            /\ sock' = ClosedSockets(conn)
       ELSE UNCHANGED <<connState, sock>>
    /\ conn' = 0
    /\ mainPc' = IF mainPc = "start" THEN "start_bind" ELSE "reconnect_bind"
    /\ UNCHANGED <<connected, should_run, executor_shutdown, nconn, lpc, lconn, lev,
                   queue, delivered, sendCalls>>
    /\ UNCHANGED <<retry, connection_attempts, backoff_time, connect_result,
                   exit_status>>
    /\ UNCHANGED <<workerVars, callerVars, envVars, funcVars>>

\* what the caller does with an exception of connect_gateway: start_client
\* re-raises it and run() goes through its finally; the loop counts it
AfterConnectRaised ==
    IF mainPc = "start_bind"
    THEN /\ mainPc' = "stop"
         /\ exit_status' = "raising"
         /\ UNCHANGED <<retry, connection_attempts>>
    ELSE /\ connection_attempts' = connection_attempts + 1
         /\ retry' = IF connection_attempts + 1 >= max_connection_attempts
                     THEN FALSE ELSE retry
         /\ mainPc' = "loop"
         /\ UNCHANGED exit_status

\* connect_gateway, second half: connect and bind succeed
ConnectGatewayBound ==
    /\ mainPc \in {"start_bind", "reconnect_bind"}
    /\ linkUp
    /\ Sessions < MaxSessions
    /\ LET h == nconn + 1 IN
        /\ nconn' = h
        /\ conn' = h
        /\ connState' = [connState EXCEPT ![h] = BindTransceiverState]
        /\ sock' = [sock EXCEPT ![h] = TRUE]
        /\ lpc' = [lpc EXCEPT ![Sessions + 1] = "check"]
    /\ connected' = TRUE
    /\ should_run' = TRUE
    /\ lock' = Free
    /\ connect_result' = "True"
    /\ connection_attempts' = 0
    /\ mainPc' = "loop"
    /\ UNCHANGED <<executor_shutdown, lconn, lev, queue, delivered, sendCalls>>
    /\ UNCHANGED <<retry, backoff_time, exit_status>>
    /\ UNCHANGED <<workerVars, callerVars, envVars, funcVars>>

\* connect_gateway, second half: self.conn.connect() raises
ConnectGatewayConnectFailed ==
    /\ mainPc \in {"start_bind", "reconnect_bind"}
    /\ ~linkUp
    /\ LET h == nconn + 1 IN
        /\ nconn' = h
        /\ conn' = h
        /\ connState' = [connState EXCEPT ![h] = "CLOSED"]
    /\ connected' = FALSE
    /\ lock' = Free
    /\ connect_result' = "raised"
    /\ AfterConnectRaised
    /\ UNCHANGED <<sock, should_run, executor_shutdown, lpc, lconn, lev, queue,
                   delivered, sendCalls>>
    /\ UNCHANGED backoff_time
    /\ UNCHANGED <<workerVars, callerVars, envVars, funcVars>>

\* connect_gateway, second half: the peer refuses bind_transceiver
ConnectGatewayBindFailed ==
    /\ mainPc \in {"start_bind", "reconnect_bind"}
    /\ linkUp
    /\ LET h == nconn + 1 IN
        /\ nconn' = h
        /\ conn' = h
        /\ connState' = [connState EXCEPT ![h] = "OPEN"]
        /\ sock' = [sock EXCEPT ![h] = TRUE]
    /\ connected' = FALSE
    /\ lock' = Free
    /\ connect_result' = "raised"
    /\ AfterConnectRaised
    /\ UNCHANGED <<should_run, executor_shutdown, lpc, lconn, lev, queue, delivered,
                   sendCalls>>
    /\ UNCHANGED backoff_time
    /\ UNCHANGED <<workerVars, callerVars, envVars, funcVars>>

\* run(): the loop ends when retry is false
MainLeaveLoop ==
    /\ mainPc = "loop"
    /\ ~retry
    /\ mainPc' = "stop"
    /\ UNCHANGED <<retry, connection_attempts, backoff_time, connect_result,
                   exit_status>>
    /\ UNCHANGED <<clientVars, workerVars, callerVars, envVars, funcVars>>

\* run(): one turn of the loop, is_connected() and the backoff time
MainCheckConnection ==
    /\ mainPc = "loop"
    /\ retry
    /\ CanAcquire(lock, MainThread)
    /\ \E probe \in ProbeOutcomes :
        LET r == IsConnectedResult(probe) IN
        /\ connected' = r.connected
        /\ IF r.ret
           THEN UNCHANGED <<mainPc, backoff_time>>
           ELSE /\ backoff_time' = BackoffTime(connection_attempts)
                /\ mainPc' = "backoff"
    /\ UNCHANGED <<lock, conn, connState, sock, should_run, executor_shutdown,
                   nconn, lpc, lconn, lev, queue, delivered, sendCalls>>
    /\ UNCHANGED <<retry, connection_attempts, connect_result, exit_status>>
    /\ UNCHANGED <<workerVars, callerVars, envVars, funcVars>>

\* stop_client(): disconnect(). unbind() and conn.disconnect() share one try,
\* so an unbind that raises leaves the socket of the handle open.
Disconnect ==
    /\ mainPc = "stop"
    /\ CanAcquire(lock, MainThread)
    /\ should_run' = FALSE
    /\ connected' = FALSE
    /\ IF conn # 0 /\ ~UnbindRaises
       THEN /\ connState' = [connState EXCEPT ![conn] = "CLOSED"]
            /\ sock' = ClosedSockets(conn)
       ELSE UNCHANGED <<connState, sock>>
    /\ conn' = ConnAfterDisconnect(UnbindRaises)
    /\ executor_shutdown' = TRUE
    /\ mainPc' = "exited"
    /\ exit_status' = IF exit_status = "raising" THEN "error" ELSE "ok"
    /\ UNCHANGED <<lock, nconn, lpc, lconn, lev, queue, delivered, sendCalls>>
    /\ UNCHANGED <<retry, connection_attempts, backoff_time, connect_result>>
    /\ UNCHANGED <<workerVars, callerVars, envVars, funcVars>>


\* ------------------------------------------------------------ the read loop
\* _listen reads _should_run, _connected and conn without the lock.

\* an exception in the loop body: stop when told to, mark the client
\* disconnected and stop when it was connected, else go round again
ListenOnError(k) ==
    /\ lconn' = [lconn EXCEPT ![k] = 0]
    /\ IF ~should_run THEN /\ lpc' = [lpc EXCEPT ![k] = "done"]
                           /\ UNCHANGED connected
       ELSE IF connected THEN /\ lpc' = [lpc EXCEPT ![k] = "done"]
                              /\ connected' = FALSE
       ELSE /\ lpc' = [lpc EXCEPT ![k] = "check"]
            /\ UNCHANGED connected

\* while self._should_run and self._connected and self.conn: ... listen()
ListenCheck(k) ==
    /\ lpc[k] = "check"
    /\ IF should_run /\ connected /\ conn # 0
       THEN IF ~sock[conn]
            THEN /\ connected' = FALSE
                 /\ lpc' = [lpc EXCEPT ![k] = "done"]
                 /\ UNCHANGED lconn
            ELSE /\ lpc' = [lpc EXCEPT ![k] = "listening"]
                 /\ lconn' = [lconn EXCEPT ![k] = conn]
                 /\ UNCHANGED connected
       ELSE /\ lpc' = [lpc EXCEPT ![k] = "done"]
            /\ UNCHANGED <<connected, lconn>>
    /\ UNCHANGED <<lock, conn, connState, sock, should_run, executor_shutdown,
                   nconn, lev, queue, delivered, sendCalls>>
    /\ UNCHANGED <<workerVars, callerVars, mainVars, envVars, funcVars>>

\* a deliver_sm arrives on the handle a thread is reading: listen() reads
\* the pdu off the socket; the pdus are numbered as they arrive
ListenRead(k) ==
    /\ lpc[k] = "listening"
    /\ linkUp
    /\ sock[lconn[k]]
    /\ connState[lconn[k]] = "BOUND_TRX"
    /\ delivered < MaxEvents
    /\ delivered' = delivered + 1
    /\ lev' = [lev EXCEPT ![k] = delivered + 1]
    /\ lpc' = [lpc EXCEPT ![k] = "handling"]
    /\ UNCHANGED <<lock, conn, connState, sock, connected, should_run,
                   executor_shutdown, nconn, lconn, queue, sendCalls>>
    /\ UNCHANGED <<workerVars, callerVars, mainVars, envVars, funcVars>>

\* the handler of listen() calls handle_message, which hands a SendSubmitSm
\* task to the pool; after shutdown submit() raises and the event is logged.
\* listen() then reads on.
ListenDeliver(k) ==
    /\ lpc[k] = "handling"
    /\ queue' = IF executor_shutdown THEN queue ELSE Append(queue, lev[k])
    /\ lev' = [lev EXCEPT ![k] = 0]
    /\ lpc' = [lpc EXCEPT ![k] = "listening"]
    /\ UNCHANGED <<lock, conn, connState, sock, connected, should_run,
                   executor_shutdown, nconn, lconn, delivered, sendCalls>>
    /\ UNCHANGED <<workerVars, callerVars, mainVars, envVars, funcVars>>

\* listen() waits for the next pdu however long that takes
ListenBlocks == FALSE

\* socket.settimeout(1.0) before listen(): a read that gets nothing ends in
\* socket.timeout
ListenTimesOut == TRUE

\* socket.timeout after one second: restore the timeout of self.conn.socket
\* (an AttributeError when self.conn is None by now) and go round again
ListenTimeout(k) ==
    /\ lpc[k] = "listening"
    /\ sock[lconn[k]]
    /\ ListenTimesOut
    /\ IF conn = 0
       THEN ListenOnError(k)
       ELSE /\ lpc' = [lpc EXCEPT ![k] = "check"]
            /\ lconn' = [lconn EXCEPT ![k] = 0]
            /\ UNCHANGED connected
    /\ UNCHANGED <<lock, conn, connState, sock, should_run, executor_shutdown,
                   nconn, lev, queue, delivered, sendCalls>>
    /\ UNCHANGED <<workerVars, callerVars, mainVars, envVars, funcVars>>

\* listen() raises: the path is down or the socket was closed under it
ListenError(k) ==
    /\ lpc[k] = "listening"
    /\ ~linkUp \/ ~sock[lconn[k]]
    /\ ListenOnError(k)
    /\ UNCHANGED <<lock, conn, connState, sock, should_run, executor_shutdown,
                   nconn, lev, queue, delivered, sendCalls>>
    /\ UNCHANGED <<workerVars, callerVars, mainVars, envVars, funcVars>>

\* -------------------------------------------------------------- the workers
\* nothing of run()'s try block is caught at the worker boundary
CaughtByRunNothing(err) == FALSE

\* run(): except Exception at the end of the method
CaughtByRun(err) == err \in {"AttributeError", "UnicodeDecodeError", "ValueError"}

\* run() on one event. A blank payload is logged and done. For a payload with
\* text the session id is extracted, where value.decode() raises on a token
\* that is not UTF-8, and the request URL is built, and that reads
\* self.network: SmppConfig.__init__ sets no such attribute and nothing else
\* does, so the f-string raises AttributeError and the rest of the try block
\* (http_request, is_connected, send_submit_sm) is not reached.
RunError(ev) ==
    IF ev = "blank" THEN "none"
    ELSE IF ev = "undecodable" THEN "UnicodeDecodeError"
    ELSE "AttributeError"

RunOutcome(ev) ==
    IF RunError(ev) = "none" THEN "done"
    ELSE IF CaughtByRun(RunError(ev)) THEN "caught"
    ELSE "propagated"

\* the calls of http_request (line 47) run() makes for one event: none for a
\* blank payload, which is logged at line 57, and none when an earlier line
\* of the try block raised
BackendRequests(ev) ==
    IF ev = "blank" THEN 0
    ELSE IF RunError(ev) # "none" THEN 0
    ELSE 1

\* the task goes back to the end of the work queue
QueueAfterRunAgain(q) == Append(Tail(q), Head(q))

\* a task handed to the pool is taken from the work queue once
QueueAfterRun(q) == Tail(q)

\* what the last run of a pool thread came to
WorkerResult(w) == IF wev[w] = "none" THEN "none" ELSE RunOutcome(wev[w])

\* a pool thread takes the next task and runs it to its end; what the pdu
\* of the task carries shows when run() reads it (the count of the runs
\* stops one past the events there can be)
WorkerTake(w) ==
    /\ queue # <<>>
    /\ runs <= MaxEvents
    /\ queue' = QueueAfterRun(queue)
    /\ runs' = runs + 1
    /\ \E ev \in EventKinds :
        /\ requests' = requests + BackendRequests(ev)
        /\ wev' = [wev EXCEPT ![w] = ev]
    /\ UNCHANGED <<lock, conn, connState, sock, connected, should_run,
                   executor_shutdown, nconn, lpc, lconn, lev, delivered, sendCalls>>
    /\ UNCHANGED <<callerVars, mainVars, envVars, funcVars>>

\* ---------------------------------------------- direct calls of the client
\* A thread of the embedding program calls the operations of SmppClient
\* itself, the way src/Test.py does.

\* is_connected() called and returned
CallIsConnected ==
    /\ cpc = "idle"
    /\ CanAcquire(lock, CallerThread)
    /\ \E probe \in ProbeOutcomes :
        LET r == IsConnectedResult(probe) IN
        /\ connected' = r.connected
        /\ cres' = IF r.ret THEN "True" ELSE "False"
    /\ UNCHANGED cpc
    /\ UNCHANGED <<lock, conn, connState, sock, should_run, executor_shutdown,
                   nconn, lpc, lconn, lev, queue, delivered, sendCalls>>
    /\ UNCHANGED <<workerVars, mainVars, envVars, funcVars>>

\* submit_short_message(**kwargs) called
CallSubmitShortMessage ==
    /\ cpc = "idle"
    /\ cpc' = "submit"
    /\ cres' = "none"
    /\ UNCHANGED <<clientVars, workerVars, mainVars, envVars, funcVars>>

\* submit_short_message: with self._lock, then self.is_connected(), which
\* takes self._lock again, then conn.send_message
SubmitShortMessage ==
    /\ cpc = "submit"
    /\ CanAcquire(lock, CallerThread)
    /\ IF CanAcquire(CallerThread, CallerThread)
       THEN \E probe \in ProbeOutcomes, send \in SendOutcomes :
            LET r == IsConnectedResult(probe) IN
            /\ lock' = Free
            /\ cpc' = "idle"
            /\ IF ~r.ret
               THEN /\ cres' = "not_connected"
                    /\ connected' = r.connected
                    /\ UNCHANGED sendCalls
               ELSE /\ sendCalls' = sendCalls + 1
                    /\ cres' = IF SendMessageResult(send, r.connected).raised
                               THEN "raised" ELSE "sent"
                    /\ connected' = SendMessageResult(send, r.connected).connected
       ELSE /\ lock' = CallerThread
            /\ cpc' = "blocked"
            /\ UNCHANGED <<cres, connected, sendCalls>>
    /\ UNCHANGED <<conn, connState, sock, should_run, executor_shutdown, nconn,
                   lpc, lconn, lev, queue, delivered>>
    /\ UNCHANGED <<workerVars, mainVars, envVars, funcVars>>

\* connect_gateway() called by the thread, first half: take the lock,
\* unbind and disconnect the handle there is, self.conn = None
CallConnectGateway ==
    /\ cpc = "idle"
    /\ nconn < MaxConn
    /\ CanAcquire(lock, CallerThread)
    /\ lock' = CallerThread
    /\ IF conn # 0
       THEN /\ connState' = [connState EXCEPT ![conn] = "CLOSED"]
            /\ sock' = ClosedSockets(conn)
       ELSE UNCHANGED <<connState, sock>>
    /\ conn' = 0
    /\ cpc' = "connect_bind"
    /\ cres' = "none"
    /\ UNCHANGED <<connected, should_run, executor_shutdown, nconn, lpc, lconn, lev,
                   queue, delivered, sendCalls>>
    /\ UNCHANGED <<workerVars, mainVars, envVars, funcVars>>

\* connect_gateway() called by the thread, second half: connect and bind
\* succeed, the flags are set and a read loop is started; True is returned
CallConnectGatewayBound ==
    /\ cpc = "connect_bind"
    /\ linkUp
    /\ Sessions < MaxSessions
    /\ LET h == nconn + 1 IN
        /\ nconn' = h
        /\ conn' = h
        /\ connState' = [connState EXCEPT ![h] = BindTransceiverState]
        /\ sock' = [sock EXCEPT ![h] = TRUE]
        /\ lpc' = [lpc EXCEPT ![Sessions + 1] = "check"]
    /\ connected' = TRUE
    /\ should_run' = TRUE
    /\ lock' = Free
    /\ cpc' = "idle"
    /\ cres' = "True"
    /\ UNCHANGED <<executor_shutdown, lconn, lev, queue, delivered, sendCalls>>
    /\ UNCHANGED <<workerVars, mainVars, envVars, funcVars>>

\* connect_gateway() called by the thread, second half: connect() raises
\* (the path is down) or the peer refuses the bind; _connected = False and
\* the exception goes to the caller
CallConnectGatewayRaised ==
    /\ cpc = "connect_bind"
    /\ LET h == nconn + 1 IN
        /\ nconn' = h
        /\ conn' = h
        /\ connState' = [connState EXCEPT ![h] = IF linkUp THEN "OPEN" ELSE "CLOSED"]
        /\ sock' = [sock EXCEPT ![h] = linkUp]
    /\ connected' = FALSE
    /\ lock' = Free
    /\ cpc' = "idle"
    /\ cres' = "raised"
    /\ UNCHANGED <<should_run, executor_shutdown, lpc, lconn, lev, queue, delivered,
                   sendCalls>>
    /\ UNCHANGED <<workerVars, mainVars, envVars, funcVars>>

\* disconnect() called by the thread: the flags are cleared, the handle is
\* closed and dropped, executor_service.shutdown(wait=False)
CallDisconnect ==
    /\ cpc = "idle"
    /\ CanAcquire(lock, CallerThread)
    /\ should_run' = FALSE
    /\ connected' = FALSE
    /\ IF conn # 0 /\ ~UnbindRaises
       THEN /\ connState' = [connState EXCEPT ![conn] = "CLOSED"]
            /\ sock' = ClosedSockets(conn)
       ELSE UNCHANGED <<connState, sock>>
    /\ conn' = ConnAfterDisconnect(UnbindRaises)
    /\ executor_shutdown' = TRUE
    /\ cres' = "none"
    /\ UNCHANGED cpc
    /\ UNCHANGED <<lock, nconn, lpc, lconn, lev, queue, delivered, sendCalls>>
    /\ UNCHANGED <<workerVars, mainVars, envVars, funcVars>>

\* ------------------------------------------------------- the signal handler
\* SIGINT or SIGTERM while run() is in its try block. The handler runs in the
\* main thread wherever that is: it sets retry and _should_run, taking no
\* lock, and sys.exit(0) unwinds the main thread, out of a with-block if it
\* is in one, into the finally of run(); main() lets SystemExit pass.
SignalHandler ==
    /\ mainPc \in {"start", "start_bind", "loop", "backoff", "reconnect_bind"}
    /\ retry' = FALSE
    /\ should_run' = FALSE
    /\ lock' = IF lock = MainThread THEN Free ELSE lock
    /\ mainPc' = "stop"
    /\ UNCHANGED <<conn, connState, sock, connected, executor_shutdown, nconn,
                   lpc, lconn, lev, queue, delivered, sendCalls>>
    /\ UNCHANGED <<connection_attempts, backoff_time, connect_result, exit_status>>
    /\ UNCHANGED <<workerVars, callerVars, envVars, funcVars>>

\* ---------------------------------------------------------- the environment
LinkDown ==
    /\ linkUp
    /\ linkFlips < MaxLinkFlips
    /\ linkUp' = FALSE
    /\ linkFlips' = linkFlips + 1
    /\ UNCHANGED <<clientVars, workerVars, callerVars, mainVars, funcVars>>

LinkRestored ==
    /\ ~linkUp
    /\ linkUp' = TRUE
    /\ UNCHANGED linkFlips
    /\ UNCHANGED <<clientVars, workerVars, callerVars, mainVars, funcVars>>

\* ---------------------------------------------------------- specifications
MainNext ==
    \/ ConnectGatewayBegin
    \/ ConnectGatewayBound
    \/ ConnectGatewayConnectFailed
    \/ ConnectGatewayBindFailed
    \/ MainLeaveLoop
    \/ MainCheckConnection
    \/ Disconnect

\* the steps of a read loop that read or write the state of the client
ListenControl == \E k \in Threads :
    \/ ListenCheck(k)
    \/ ListenTimeout(k)
    \/ ListenError(k)

\* the steps of a read loop on a deliver_sm
ListenEvent == \E k \in Threads :
    \/ ListenRead(k)
    \/ ListenDeliver(k)

ListenNext == ListenControl \/ ListenEvent

WorkerNext == \E w \in Workers : WorkerTake(w)

CallerNext ==
    \/ CallIsConnected
    \/ CallSubmitShortMessage
    \/ SubmitShortMessage

\* the thread opens and closes the session of the client itself
LifecycleNext ==
    \/ CallConnectGateway
    \/ CallConnectGatewayBound
    \/ CallConnectGatewayRaised
    \/ CallDisconnect

LinkNext == LinkDown \/ LinkRestored

EnvNext == LinkNext \/ SignalHandler

\* every thread of the program and its environment
Next ==
    MainNext \/ ListenNext \/ WorkerNext \/ CallerNext \/ LifecycleNext \/ EnvNext

\* the connection control of the service: the supervisor, the read loops,
\* the signal handler and the network. The deliveries and the pool, which
\* neither read nor write the lock, the flags or the handle, are left out.
ControlNext == MainNext \/ ListenControl \/ EnvNext

\* the path of an inbound event: the supervisor, the read loops with their
\* deliveries, the pool and the network
PipelineNext == MainNext \/ ListenNext \/ WorkerNext \/ LinkNext

\* the connection control of the client with a thread that calls its
\* operations directly
ClientNext == MainNext \/ ListenControl \/ CallerNext \/ LinkNext

\* a client used without the supervisor: a thread of the embedding program
\* connects and disconnects it, the read loops hand the events to the pool
ReuseNext == LifecycleNext \/ ListenNext \/ WorkerNext \/ LinkNext

Init == FuncInit /\ ConcInit

Spec == Init /\ [][Next]_vars

ControlSpec == Init /\ [][ControlNext]_vars

PipelineSpec == Init /\ [][PipelineNext]_vars

ClientSpec == Init /\ [][ClientNext]_vars

ReuseSpec == Init /\ [][ReuseNext]_vars

\* the worker functions applied to inputs drawn from the bounded sets
FuncSpec == Init /\ [][FuncNext]_vars


\* the fairness of the threads: the scheduler runs every thread that can
\* run; the network, the peer and whoever sends signals owe nothing
Fairness ==
    /\ WF_vars(MainNext)
    /\ \A k \in Threads :
        WF_vars(ListenCheck(k) \/ ListenTimeout(k) \/ ListenError(k)
                    \/ ListenDeliver(k))
    /\ \A w \in Workers : WF_vars(WorkerTake(w))

FairSpec == Spec /\ Fairness

FairControlSpec == ControlSpec /\ Fairness

FairPipelineSpec == PipelineSpec /\ Fairness

\* a caller inside submit_short_message gets the lock if it is free again
\* and again
FairClientSpec == ClientSpec /\ Fairness /\ SF_vars(SubmitShortMessage)

\* ------------------------------------------------------------------ claims
\* the session tag and the operation tag of a frame
SessionTagOf(f) ==
    {f.optional_parameters[i][2] : i \in
        {j \in 1..Len(f.optional_parameters) :
            f.optional_parameters[j][1] = "TAG_ITS_SESSION_INFO"}}

UssdOpOf(f) ==
    {f.optional_parameters[i][2] : i \in
        {j \in 1..Len(f.optional_parameters) :
            f.optional_parameters[j][1] = "TAG_USSD_SERVICE_OP"}}

\* the first three characters are E, N, D in either case
StartsWithEnd(m) ==
    /\ Len(m) >= 3
    /\ m[1] \in {69, 101}
    /\ m[2] \in {78, 110}
    /\ m[3] \in {68, 100}

SentFrame == fn = "send_submit_sm" /\ returned /\ frame.submitted

\* C1 (as claimed): a call of submit_short_message made while the client is
\* not Bound comes back to its caller with the "not connected" error (unless
\* the client has become Bound in the meantime).
C1_NotBoundFailsFast ==
    (cpc = "submit" /\ ~Bound) ~> (cres = "not_connected" \/ Bound)

\* C2 (as claimed): a call of submit_short_message made while the client is
\* Bound and the path is up ends with send_message called and its result
\* returned (unless the client or the path fail in the meantime).
C2_BoundSubmitSends ==
    (cpc = "submit" /\ Bound /\ linkUp) ~> (cres = "sent" \/ ~Bound \/ ~linkUp)

TextOfToken(value) ==
    IF value.type = "bytes" THEN Utf8Decode(value.v) ELSE IntToStr(value.v)

\* C4: when the deliver_sm has a recognized session parameter, the session id
\* of the event is the text of such a parameter, verbatim; and there is a
\* session id whenever the payload is not blank and the tokens decode.
C4_TokenVerbatim ==
    (fn = "run" /\ returned /\ SessionEntries(pdu.optional_parameters) # {}) =>
        LET rec == SessionEntries(pdu.optional_parameters)
            texts == {TextOfToken(pdu.optional_parameters[i][2]) : i \in rec}
        IN  /\ run_session.processed => run_session.session_id \in texts
            /\ (/\ Strip(pdu.payload) # <<>>
                /\ \A i \in rec : TokenOk(pdu.optional_parameters[i][2]))
               => run_session.processed

\* the token b"42" gives the session id "42"
C4_Witness ==
    /\ fn = "run"
    /\ returned
    /\ pdu.optional_parameters =
           << <<"its_session_info", [type |-> "bytes", v |-> <<52, 50>>]>> >>
    /\ run_session.processed
    /\ run_session.session_id = <<52, 50>>

\* C5 (as claimed): send_submit_sm hands a frame to submit_short_message for
\* every session id, and the frame has a session tag exactly when the session
\* id is not "0". (Stated for the session ids that are not empty: the code
\* takes the empty one for "no session" as well.)
C5_SessionTagIffNotSentinel ==
    (fn = "send_submit_sm" /\ returned /\ session_id # <<>>) =>
        /\ frame.submitted
        /\ (SessionTagOf(frame) # {}) <=> (session_id # <<48>>)

\* C6: an event with a payload and no session token gets the session id "0".
C6_SentinelWhenNoToken ==
    (/\ fn = "run"
     /\ returned
     /\ SessionEntries(pdu.optional_parameters) = {}
     /\ Strip(pdu.payload) # <<>>)
    => (run_session.processed /\ run_session.session_id = <<48>>)

\* payload "1", a parameter that is no session token: session id "0"
C6_Witness ==
    /\ fn = "run"
    /\ returned
    /\ pdu.payload = <<49>>
    /\ pdu.optional_parameters = <<OtherParam>>
    /\ run_session.session_id = <<48>>

\* C7: a reconnect delay is at most 60; the delay of the first attempt after
\* a success (the counter is 0) is 1; the delay after a failed attempt is not
\* below the delay before it; a successful connect leaves the counter at 0.
C7_Backoff ==
    [][/\ (mainPc = "loop" /\ mainPc' = "backoff") =>
            /\ backoff_time' <= 60
            /\ connection_attempts = 0 => backoff_time' = 1
            /\ connection_attempts > 0 => backoff_time' >= backoff_time
       /\ (connect_result' = "True" /\ nconn' # nconn) => connection_attempts' = 0
      ]_vars

\* the third failed attempt in a row is about to be made, after 4 seconds
C7_Witness ==
    /\ mainPc = "backoff"
    /\ connection_attempts = 2
    /\ backoff_time = 4

\* C8: http_request returns, it never raises, and when the backend call fails
\* or times out what it returns is the fallback text.
C8_FallbackNeverRaises ==
    (fn = "http_request" /\ returned) =>
        /\ ~menu_response.raised
        /\ backend.kind # "ok" => menu_response.text = default_response

\* the read times out: the fallback text
C8_Witness ==
    /\ fn = "http_request"
    /\ returned
    /\ backend.kind = "timeout"
    /\ menu_response.text = default_response

\* C9 (as claimed): the text http_request returns is never empty.
C9_ReplyNeverEmpty ==
    (fn = "http_request" /\ returned) => menu_response.text # <<>>

\* C10 (as claimed): connect_gateway never raises to its caller.
C10_ConnectNeverRaises == connect_result # "raised"

\* C11: is_connected() returns True only when the client is Bound, and it is
\* still Bound afterwards (the probe went out); when it returns False on a
\* client that is Bound with its socket there, the probe has failed, and
\* _connected is False afterwards. The same for the call in the main loop,
\* which goes on to reconnect when the answer is False.
C11_IsConnected ==
    [][/\ CallIsConnected =>
            /\ cres' = "True" => (Bound /\ Bound')
            /\ (cres' = "False" /\ Bound /\ sock[conn]) => ~connected'
       /\ (mainPc = "loop" /\ mainPc' = "backoff" /\ Bound /\ sock[conn])
            => ~connected'
      ]_vars

\* is_connected() has answered False on a bound handle whose path is down
C11_Witness ==
    /\ cres = "False"
    /\ conn # 0
    /\ connState[conn] = "BOUND_TRX"
    /\ sock[conn]
    /\ ~connected
    /\ ~linkUp

\* C12: once disconnect() has returned, whatever the client was doing before:
\* _should_run is False, the client is not connected, self.conn is None (also
\* when unbind raised and left the socket of the handle open), the pool is
\* shut down, and is_connected() answers False whatever the probe would do.
C12_AfterDisconnect ==
    mainPc = "exited" =>
        /\ ~should_run
        /\ ~connected
        /\ conn = 0
        /\ executor_shutdown
        /\ \A probe \in {"sent", "raised"} : ~IsConnectedResult(probe).ret

\* disconnect() has returned after an unbind that raised: a handle is still
\* bound with its socket open, and self.conn is None
C12_Witness ==
    /\ mainPc = "exited"
    /\ conn = 0
    /\ \E h \in Handles : connState[h] = "BOUND_TRX" /\ sock[h]

\* C13: when connect_gateway() returns True, the path being up, a call of
\* is_connected() made at once, before any other thread has taken a step,
\* answers True: the client is Bound and the read loop has been started.
C13_ConnectedAfterConnect ==
    [][(connect_result' = "True" /\ nconn' # nconn /\ linkUp') =>
            /\ IsConnectedResult("sent").ret'
            /\ Bound'
            /\ lpc'[Sessions'] = "check"
      ]_vars

\* connect_gateway() has just returned True: the read loop of the new handle
\* has not taken a step yet
C13_Witness ==
    /\ connect_result = "True"
    /\ mainPc = "loop"
    /\ Bound
    /\ linkUp
    /\ lpc[Sessions] = "check"
    /\ IsConnectedResult("sent").ret

\* C14: an exception raised in a worker's run() is caught there, it does not
\* leave run(); a run changes nothing of the read loops, the pool, the
\* connection or the supervisor; and whatever earlier runs met, a task that
\* waits in the pool can be taken.
C14_WorkerContained ==
    /\ [](\A w \in Workers : WorkerResult(w) # "propagated")
    /\ []((queue # <<>>) => ENABLED WorkerNext)
    /\ [][WorkerNext => UNCHANGED <<lpc, lconn, lev, executor_shutdown, connected,
                                    should_run, conn, lock, mainVars>>]_vars

\* run() has caught an exception; the read loop, the pool and the supervisor
\* go on
C14_Witness ==
    /\ \E w \in Workers : WorkerResult(w) = "caught"
    /\ mainPc = "loop"
    /\ ~executor_shutdown
    /\ \E k \in Threads : lpc[k] = "listening"

\* C15 (as claimed): once the configuration is loaded, the service ends on
\* its own only by giving up after the failed reconnects; run() left in any
\* other way has been told to by a signal. Giving up and the signal handler
\* are what sets retry to False.
C15_EndsOnlyByGivingUp == (mainPc = "exited") => ~retry

\* C16 (as claimed): the count of failed reconnects in a row never exceeds 5;
\* once it is 5 no connect is under way or made; and when the service has
\* stopped for that reason, the process ends with an error.
C16_GiveUpIsFatal ==
    /\ connection_attempts <= max_connection_attempts
    /\ connection_attempts >= max_connection_attempts
         => mainPc \in {"loop", "stop", "exited"} /\ ~retry
    /\ (mainPc = "exited" /\ connection_attempts >= max_connection_attempts)
         => exit_status = "error"

\* C17 (as claimed): a deliver_sm with text that a worker has run while the
\* client is Bound ends with a frame handed to the transport, unless the
\* client stops being Bound in the meantime.
C17_EventGetsFrame ==
    ((\E w \in Workers : wev[w] = "text") /\ Bound) ~> (sendCalls > 0 \/ ~Bound)

\* C18: at most one handle has an open socket at any time, and while
\* connect_gateway is between the teardown and the new handle there is none:
\* the handle there was is closed and dropped first, whatever its unbind and
\* disconnect raised, and the new attempt follows.
C18_OneLiveHandle ==
    /\ Cardinality({h \in Handles : sock[h]}) <= 1
    /\ mainPc \in {"start_bind", "reconnect_bind"} =>
            /\ conn = 0
            /\ lock = MainThread
            /\ \A h \in Handles : ~sock[h]

\* the client is bound on a second handle; the first one, bound before, was
\* torn down by connect_gateway
C18_Witness ==
    /\ Bound
    /\ conn >= 2
    /\ sock[conn]
    /\ connState[1] = "CLOSED"
    /\ ~sock[1]

\* the operations that change the state inside "with self._lock"
UnderLock ==
    \/ ConnectGatewayBegin
    \/ ConnectGatewayBound
    \/ ConnectGatewayConnectFailed
    \/ ConnectGatewayBindFailed
    \/ MainCheckConnection
    \/ Disconnect

\* C19 (as claimed): every step that changes _connected, _should_run or
\* self.conn is a step of an operation that holds the lock.
C19_ChangesUnderLock ==
    [][(connected' # connected \/ should_run' # should_run \/ conn' # conn)
        => UnderLock]_vars

\* C20: an event is run once: the runs and the tasks that still wait never
\* exceed the events received, and the calls of send_message never exceed the
\* runs, whatever the run met and whatever reconnects follow.
C20_NoRetry ==
    /\ runs + Len(queue) <= delivered
    /\ sendCalls <= runs

\* the run of the one event met an exception and sent nothing; the client has
\* been bound again since, and nothing is run or sent again
C20_Witness ==
    /\ \E w \in Workers : WorkerResult(w) = "caught"
    /\ runs = 1
    /\ queue = <<>>
    /\ sendCalls = 0
    /\ Bound
    /\ conn >= 2

C22_OneRequestPerEvent == requests = runs

\* the read-loop threads that were started and have not ended
LiveLoops == {k \in Threads : lpc[k] \notin {"none", "done"}}

\* C23: at no time are two read-loop threads alive.
C23_OneReadLoop == Cardinality(LiveLoops) <= 1

\* C24: once disconnect() has returned, every read-loop thread that is
\* still alive ends, whether it is inside listen() or between two reads and
\* with self.conn None by then.
C24_LoopEndsAfterDisconnect == (mainPc = "exited") ~> (LiveLoops = {})

\* disconnect() has returned and set self.conn to None while a read loop is
\* inside listen() on the socket that the failed unbind left open
C24_Witness ==
    /\ mainPc = "exited"
    /\ ~should_run
    /\ conn = 0
    /\ \E k \in Threads : lpc[k] = "listening" /\ sock[lconn[k]]

\* C25 (as claimed): when the supervisor is in its loop, the service still
\* running, and the client has been marked not connected, connect_gateway
\* is called again (unless the service is told to stop or the connects of
\* the model are used up), whatever the other threads that call the client
\* do.
C25_UnhealthyReconnects ==
    (mainPc = "loop" /\ retry /\ ~connected)
        ~> (mainPc = "reconnect_bind" \/ ~retry \/ nconn = MaxConn)

\* C26 (as claimed): when handle_message hands the task of a deliver_sm to
\* the pool, no deliver_sm that arrived earlier on the same connection is
\* still waiting to be handed over.
C26_ArrivalOrder ==
    [][\A k \in Threads :
        (lpc[k] = "handling" /\ lpc'[k] = "listening" /\ ~executor_shutdown)
            => ~\E j \in Threads :
                    /\ j # k
                    /\ lpc[j] = "handling"
                    /\ lconn[j] = lconn[k]
                    /\ lev[j] < lev[k]
      ]_vars

\* a call of the decoder that is under way or has returned
Parsing == fn = "parse_optional_params"

\* the record at the read position runs past the end of the data
Overrun == Len(data) - pos >= 4 /\ pos + 4 + UnpackHH(data, pos).length > Len(data)

\* C27: the decoder never raises, whatever the bytes; every turn of its loop
\* moves the read position forward or ends the loop, so the turns are at
\* most one more than the records that fit in the data and the call always
\* has a next step until it returns; a turn that finds fewer than 4 bytes,
\* or a record whose length runs past the end, ends the loop and changes
\* nothing.
C27_DecoderTerminates ==
    /\ [](Parsing =>
            /\ stop # "raised"
            /\ pos <= Len(data)
            /\ iterations <= Len(data) \div 4 + 1)
    /\ []((Parsing /\ ~returned) =>
            ENABLED (ParseOptionalParamsStep \/ ReturnParseOptionalParams))
    /\ [][ParseOptionalParamsStep => (pos' > pos \/ stop' # "none")]_vars
    /\ [][(ParseOptionalParamsStep /\ (Len(data) - pos < 4 \/ Overrun)) =>
            /\ stop' \in {"short", "overrun"}
            /\ pos' = pos
            /\ decoded' = decoded]_vars
    /\ []((Parsing /\ returned) =>
            /\ stop \in {"end", "short", "overrun", "error"}
            /\ stop = "end" => pos = Len(data))

\* the decoder has returned after two records and a third turn that found
\* fewer than 4 bytes left
C27_Witness ==
    /\ Parsing
    /\ returned
    /\ stop = "short"
    /\ iterations = 3
    /\ pos = 8

\* the records of the data as the framing gives them, whatever their tags
\* and values: from the start, as long as 4 bytes are left and the length
\* stays inside the data
RECURSIVE RecordsFrom(_, _)
RecordsFrom(d, p) ==
    IF Len(d) - p < 4 THEN <<>>
    ELSE LET to == p + 4 + UnpackHH(d, p).length IN
         IF to > Len(d) THEN <<>>
         ELSE <<[tag |-> UnpackHH(d, p).field, from |-> p, to |-> to]>>
                  \o RecordsFrom(d, to)

Records == RecordsFrom(data, 0)

RecordValue(r) == SubSeq(data, r.from + 5, r.to)

UnknownRecord(r) == r.tag \notin DOMAIN param_table

\* a known tag of a parameter with a name
NamedRecord(r) == r.tag \in DOMAIN param_table /\ param_table[r.tag].name # ""

WellFormedRecord(r) ==
    NamedRecord(r) /\ ParamTypeOk(param_table[r.tag].type, RecordValue(r))

MalformedRecord(r) ==
    NamedRecord(r) /\ ~ParamTypeOk(param_table[r.tag].type, RecordValue(r))

\* the loop has gone through the record and its value is in the attribute:
\* among the values of a multi parameter, or the value of a plain one unless
\* a later record of the same parameter has replaced it
DecodedRecord(r) ==
    LET param == param_table[r.tag]
        attr == decoded[param.name]
        value == ParamTypeValue(param.type, RecordValue(r))
    IN  /\ pos >= r.to
        /\ attr # NoAttr
        /\ IF param.multi
           THEN \E i \in 1..Len(attr) : attr[i] = value
           ELSE \/ attr[1] = value
                \/ \E n \in 1..Len(Records) :
                    /\ Records[n].from >= r.to
                    /\ Records[n].to <= pos
                    /\ Records[n].tag = r.tag
                    /\ WellFormedRecord(Records[n])

\* the loop is at a record with a tag that is not in self.params
AtUnknownRecord ==
    /\ Len(data) - pos >= 4
    /\ ~Overrun
    /\ UnpackHH(data, pos).field \notin DOMAIN param_table

C29_MalformedSkipped ==
    (Parsing /\ returned) =>
        \A i, j \in 1..Len(Records) :
            (i < j /\ MalformedRecord(Records[i]) /\ WellFormedRecord(Records[j]))
                => DecodedRecord(Records[j])

\* C30 (as claimed): no thread waits for the lock of the client while it
\* holds that lock itself.
C30_NoSelfAcquire == ~(cpc = "blocked" /\ lock = CallerThread)


\* the session ids the extraction gives for a deliver_sm with one session
\* token
ExtractedSessionIds(v) ==
    {ExtractSessionId(v, <<e>>).session_id :
        e \in {f \in SessionTags \X TokenValues : ExtractSessionId(v, <<f>>).found}}

\* the session id the extraction gives for a deliver_sm whose session token
\* is the bytes b
SessionIdOfTag(v, b) ==
    ExtractSessionId(v, << <<"its_session_info", [type |-> "bytes", v |-> b]>> >>)

\* C33 (as claimed): when send_submit_sm is given a session id that the
\* extraction gave for an inbound session token, the bytes of the session tag
\* of the frame, put through the same extraction, give that session id again.
C33_SessionTagRoundTrip ==
    (SentFrame /\ session_id \in ExtractedSessionIds(variant)) =>
        \A b \in SessionTagOf(frame) :
            /\ SessionIdOfTag(variant, b).found
            /\ SessionIdOfTag(variant, b).session_id = session_id


\* a read loop in listen() on a handle that is no longer the one of the
\* client: the thread was started for an earlier connection
ReadsEarlierHandle(k) == lpc[k] = "listening" /\ lconn[k] # conn

\* C32 (as claimed): while the client is Bound, a read loop that is reading
\* the handle of an earlier connection leaves _connected set, whatever error
\* it gets.
C32_EarlierLoopKeepsFlag ==
    [][\A k \in Threads :
        (/\ Bound
         /\ ReadsEarlierHandle(k)
         /\ ListenError(k) \/ ListenTimeout(k))
        => connected']_vars


\* C31 (as claimed): whenever the client is Bound, a deliver_sm that a read
\* loop hands to handle_message is put on the work queue of the pool; so it
\* is after disconnect() and a connect_gateway() that succeeded, too.
C31_BoundDeliveryDispatched ==
    [][\A k \in Threads :
        (Bound /\ ListenDeliver(k)) => queue' = Append(queue, lev[k])]_vars

====
